---- MODULE Spec2Model ----
(***************************************************************************)
(* Model of cards/build_english.py: the script that assembles              *)
(* cards/english.json from the section files cards/sections/sec_*.json.    *)
(*                                                                         *)
(* The script is one sequential process.  Its position is pc:              *)
(*   "start"   before line 8 (glob + sorted)                               *)
(*   "load"    inside the loop of lines 10-12, one file per step           *)
(*   "renumber" inside the loop of lines 15-16, one card per step          *)
(*   "write"   before open(out, "w") of line 18                            *)
(*   "writing" inside json.dump of line 19, the file open and truncated,   *)
(*             the text written so far held in the file object's buffer    *)
(*   "print"   before line 21                                              *)
(*   "done"    the process exited with status 0                            *)
(*   "failed"  the process died on an uncaught exception (status 1)        *)
(*                                                                         *)
(* File names and paths are sequences of code points, since Python's       *)
(* sorted() orders str values code point by code point.                    *)
(***************************************************************************)
EXTENDS Integers, Sequences, FiniteSets, TLC

\* ------------------------------------------------------------------------
\* Bounds of the model
\* ------------------------------------------------------------------------
MaxRecs == 3      \* most records held by the section files together
MaxFiles == 2     \* most section files present in cards/sections

\* ------------------------------------------------------------------------
\* Strings as code points
\* ------------------------------------------------------------------------
SecPrefix == <<115, 101, 99, 95>>             \* "sec_"
JsonSuffix == <<46, 106, 115, 111, 110>>      \* ".json"
Slash == <<47>>                               \* "/"
CardsDir == <<99, 97, 114, 100, 115>>         \* ".../cards"
SectionsDir == CardsDir \o Slash \o <<115, 101, 99, 116, 105, 111, 110, 115>>
                                              \* ".../cards/sections"
EnglishName == <<101, 110, 103, 108, 105, 115, 104>> \o JsonSuffix
                                              \* "english.json"
NotesName == <<110, 111, 116, 101, 115>> \o JsonSuffix
                                              \* "notes.json"
Sec1 == SecPrefix \o <<49>> \o JsonSuffix       \* "sec_1.json"
Sec2 == SecPrefix \o <<50>> \o JsonSuffix       \* "sec_2.json"
Sec10 == SecPrefix \o <<49, 48>> \o JsonSuffix  \* "sec_10.json"

\* base and out of lines 5-6, as directory + file name
base == SectionsDir
out == [dir |-> CardsDir, name |-> EnglishName]

SectionNames == {Sec1, Sec2, Sec10}
SectionPaths == {[dir |-> SectionsDir, name |-> n] : n \in SectionNames}
NotesPath == [dir |-> SectionsDir, name |-> NotesName]
Paths == SectionPaths \cup {NotesPath, out}

\* os.path.join(dir, name)
PathStr(p) == p.dir \o Slash \o p.name

\* ------------------------------------------------------------------------
\* Flashcard records and file contents
\* ------------------------------------------------------------------------
NoFields == [f \in {} |-> 0]

\* Sample JSON objects a section file may hold (the section files are
\* inputs, not part of the sources): one with an id, one without, one with
\* another id.  The script never reads a field other than id.
Hablar == [term |-> "hablar", id |-> 99]
Comer == [term |-> "comer"]
Vivir == [term |-> "vivir", id |-> 5]
Records == {Hablar, Comer, Vivir}

\* A string value json.load accepts (the escape "\ud800") and the utf-8
\* encoder of the output file refuses: a lone surrogate.
LoneSurrogate == "U+D800"
Surrogate == [term |-> LoneSurrogate]

\* A JSON value as json.load returns it, the kind of element the Python
\* list `cards` holds: a dict (fields), or a value that is no dict (text):
\* a str (what list.extend draws from a dict: its keys) or a list.
DictCard(r) == [dict |-> TRUE, fields |-> r, text |-> ""]
StrCard(s) == [dict |-> FALSE, fields |-> NoFields, text |-> s]
ListCard == [dict |-> FALSE, fields |-> NoFields, text |-> "[1]"]

\* The list of dicts json.load returns for an array of the objects s.
Dicts(s) == [k \in 1..Len(s) |-> DictCard(s[k])]

\* The content of a file:
\*   "absent"   no such file
\*   "array"    a JSON array (items: its elements)
\*   "object"   a single JSON object (keys: its keys, in order)
\*   "invalid"  text that is not JSON
\*   "partial"  a file truncated by open(.., "w") that holds no complete
\*              document: nothing, or the text flushed when a dump was cut
\*              short (items: the elements wholly in that text)
Absent == [kind |-> "absent", items |-> <<>>, keys |-> <<>>]
ArrayFile(s) == [kind |-> "array", items |-> s, keys |-> <<>>]
ObjectFile(k) == [kind |-> "object", items |-> <<>>, keys |-> k]
InvalidFile == [kind |-> "invalid", items |-> <<>>, keys |-> <<>>]
PartialFile(s) == [kind |-> "partial", items |-> s, keys |-> <<>>]

SeqsUpTo(S, n) == UNION {[1..k -> S] : k \in 0..n}

\* What one section path may hold when at most n records are left to place.
SectionContents(n) ==
    {Absent, ObjectFile(<<>>), ObjectFile(<<"term">>), InvalidFile}
      \cup {ArrayFile(Dicts(s)) : s \in SeqsUpTo(Records, n)}
      \cup {c \in {ArrayFile(<<ListCard>>),
                   ArrayFile(<<DictCard(Hablar), ListCard>>),
                   ArrayFile(<<DictCard(Comer), DictCard(Surrogate)>>)} :
               Len(c.items) <= n}

NumRecords(content) == IF content.kind = "array" THEN Len(content.items) ELSE 0

\* What english.json holds before the first run: the dataset of an earlier
\* build.
OldRecord == [term |-> "old", id |-> 1]
OldContents == {ArrayFile(<<DictCard(OldRecord)>>)}

\* ------------------------------------------------------------------------
\* Pure functions of the script
\* ------------------------------------------------------------------------
Min(a, b) == IF a <= b THEN a ELSE b

\* a < b for two Python str values: code point by code point, a proper
\* prefix first.
LexLess(a, b) ==
    \E k \in 1..(Min(Len(a), Len(b)) + 1) :
        /\ \A j \in 1..(k - 1) : a[j] = b[j]
        /\ \/ k > Len(a) /\ k <= Len(b)
           \/ k <= Len(a) /\ k <= Len(b) /\ a[k] < b[k]

\* fnmatch(name, "sec_*.json")
fnmatch(name) ==
    /\ Len(name) >= Len(SecPrefix) + Len(JsonSuffix)
    /\ SubSeq(name, 1, Len(SecPrefix)) = SecPrefix
    /\ SubSeq(name, Len(name) - Len(JsonSuffix) + 1, Len(name)) = JsonSuffix

\* Variant of glob: every *.json file below cards, whatever its directory
\* and prefix.
globAnyJson(fsys, exists) ==
    {p \in Paths :
        /\ fsys[p].kind # "absent"
        /\ Len(p.name) >= Len(JsonSuffix)
        /\ SubSeq(p.name, Len(p.name) - Len(JsonSuffix) + 1, Len(p.name))
              = JsonSuffix}

\* glob.glob(os.path.join(base, "sec_*.json")): the existing files of the
\* directory base whose name matches; nothing when base does not exist
\* (glob raises no error then).
glob(fsys, exists) ==
    IF ~exists THEN {}
    ELSE {p \in Paths : /\ fsys[p].kind # "absent"
                        /\ p.dir = base
                        /\ fnmatch(p.name)}

\* Variant of sorted: natural order, a shorter path first (sec_2 before
\* sec_10).
RECURSIVE sortedNatural(_)
sortedNatural(S) ==
    IF S = {} THEN <<>>
    ELSE LET m == CHOOSE x \in S : \A y \in S \ {x} :
                    \/ Len(PathStr(x)) < Len(PathStr(y))
                    \/ /\ Len(PathStr(x)) = Len(PathStr(y))
                       /\ LexLess(PathStr(x), PathStr(y))
         IN <<m>> \o sortedNatural(S \ {m})

\* sorted(paths): ascending by the str order of the joined path.
RECURSIVE sorted(_)
sorted(S) ==
    IF S = {} THEN <<>>
    ELSE LET m == CHOOSE x \in S :
                    \A y \in S \ {x} : LexLess(PathStr(x), PathStr(y))
         IN <<m>> \o sorted(S \ {m})

\* What cards.extend(json.load(fh)) appends for a parsed array or object:
\* the array's elements, or (iterating a dict) the object's keys.
Extension(content) ==
    IF content.kind = "array"
    THEN content.items
    ELSE [k \in 1..Len(content.keys) |-> StrCard(content.keys[k])]

\* Whether the text of the dict r can be written to a file opened with
\* encoding="utf-8" (json.dump with ensure_ascii=False leaves the strings
\* as they are).
Encodable(r) == ~("term" \in DOMAIN r /\ r["term"] = LoneSurrogate)

\* Variant of SetId: c = {"id": n}, the card is replaced instead of updated.
SetIdOnly(c, n) == [c EXCEPT !.fields = [f \in {"id"} |-> n]]

\* Variant of SetId: c.setdefault("id", n), an id already present is kept.
SetIdKeep(c, n) ==
    [c EXCEPT !.fields = [f \in DOMAIN c.fields \cup {"id"} |->
                             IF f \in DOMAIN c.fields THEN c.fields[f] ELSE n]]

\* c["id"] = n on a dict
SetId(c, n) ==
    [c EXCEPT !.fields = [f \in DOMAIN c.fields \cup {"id"} |->
                             IF f = "id" THEN n ELSE c.fields[f]]]

\* ------------------------------------------------------------------------
\* State
\* ------------------------------------------------------------------------
VARIABLES
    fs,          \* the file system: path -> content
    baseExists,  \* whether the directory base exists
    pc,          \* position of the script
    files,       \* line 8
    fpos,        \* index of f in files (loop of line 10)
    cards,       \* line 9
    i,           \* loop variable of line 15
    wpos,        \* next element of cards json.dump will write
    buf,         \* elements written to fh and still in its buffer
    stdout,      \* the counts printed by line 21 in this run
    failedAt,    \* stage in which the run died ("" while it has not)
    run,         \* 1 for the first run of the script, 2 for the second
    dest0,       \* history: content of out when this run started
    lastOut      \* history: content of out after the previous successful run

vars == <<fs, baseExists, pc, files, fpos, cards, i, wpos, buf, stdout,
          failedAt, run, dest0, lastOut>>

\* The section files fit the bounds.
Init ==
    /\ baseExists \in BOOLEAN
    /\ \E c1 \in SectionContents(MaxRecs), old \in OldContents :
       \E c2 \in SectionContents(MaxRecs - NumRecords(c1)) :
       \E c10 \in SectionContents(MaxRecs - NumRecords(c1) - NumRecords(c2)) :
          /\ Cardinality({n \in {1, 2, 3} :
                 <<c1, c2, c10>>[n].kind # "absent"}) <= MaxFiles
          /\ baseExists \/ (c1 = Absent /\ c2 = Absent /\ c10 = Absent)
          /\ fs = [p \in Paths |->
                     IF p = out THEN old
                     ELSE IF p = NotesPath
                          THEN (IF baseExists THEN ArrayFile(Dicts(<<Hablar>>))
                                ELSE Absent)
                     ELSE IF p.name = Sec1 THEN c1
                     ELSE IF p.name = Sec2 THEN c2
                     ELSE c10]
          /\ dest0 = old
    /\ pc = "start"
    /\ files = <<>>
    /\ fpos = 1
    /\ cards = <<>>
    /\ i = 1
    /\ wpos = 1
    /\ buf = <<>>
    /\ stdout = <<>>
    /\ failedAt = ""
    /\ run = 1
    /\ lastOut = <<>>

\* line 8
Discover ==
    /\ pc = "start"
    /\ files' = sorted(glob(fs, baseExists))
    /\ fpos' = 1
    /\ cards' = <<>>
    /\ pc' = "load"
    /\ UNCHANGED <<fs, baseExists, i, wpos, buf, stdout, failedAt, run, dest0,
                   lastOut>>

\* lines 10-12, one iteration: the file parses to a list or a dict
LoadFile ==
    /\ pc = "load"
    /\ fpos <= Len(files)
    /\ fs[files[fpos]].kind \in {"array", "object"}
    /\ cards' = cards \o Extension(fs[files[fpos]])
    /\ fpos' = fpos + 1
    /\ UNCHANGED <<fs, baseExists, pc, files, i, wpos, buf, stdout, failedAt,
                   run, dest0, lastOut>>

\* Variant of LoadFail: best effort, what was loaded so far is written out.
LoadFailBestEffort ==
    /\ pc = "load"
    /\ fpos <= Len(files)
    /\ fs[files[fpos]].kind \notin {"array", "object"}
    /\ fs' = [fs EXCEPT ![out] =
                 ArrayFile(cards)]
    /\ pc' = "failed"
    /\ failedAt' = "load"
    /\ UNCHANGED <<baseExists, files, fpos, cards, i, wpos, buf, stdout, run,
                   dest0, lastOut>>

\* lines 10-12, one iteration: json.load raises JSONDecodeError
LoadFail ==
    /\ pc = "load"
    /\ fpos <= Len(files)
    /\ fs[files[fpos]].kind \notin {"array", "object"}
    /\ pc' = "failed"
    /\ failedAt' = "load"
    /\ UNCHANGED <<fs, baseExists, files, fpos, cards, i, wpos, buf, stdout,
                   run, dest0, lastOut>>

\* the loop of line 10 ends
LoadEnd ==
    /\ pc = "load"
    /\ fpos > Len(files)
    /\ pc' = "renumber"
    /\ i' = 1
    /\ UNCHANGED <<fs, baseExists, files, fpos, cards, wpos, buf, stdout,
                   failedAt, run, dest0, lastOut>>

\* lines 15-16, one iteration on a dict
RenumberCard ==
    /\ pc = "renumber"
    /\ i <= Len(cards)
    /\ cards[i].dict
    /\ cards' = [cards EXCEPT ![i] = SetId(@, i)]
    /\ i' = i + 1
    /\ UNCHANGED <<fs, baseExists, pc, files, fpos, wpos, buf, stdout,
                   failedAt, run, dest0, lastOut>>

\* lines 15-16, one iteration on a str: item assignment raises TypeError
RenumberFail ==
    /\ pc = "renumber"
    /\ i <= Len(cards)
    /\ ~cards[i].dict
    /\ pc' = "failed"
    /\ failedAt' = "renumber"
    /\ UNCHANGED <<fs, baseExists, files, fpos, cards, i, wpos, buf, stdout,
                   run, dest0, lastOut>>

\* Variant of RenumberEnd: with no card there is nothing to write.
RenumberEndSkipEmpty ==
    /\ pc = "renumber"
    /\ i > Len(cards)
    /\ pc' = IF cards = <<>> THEN "print" ELSE "write"
    /\ UNCHANGED <<fs, baseExists, files, fpos, cards, i, wpos, buf, stdout,
                   failedAt, run, dest0, lastOut>>

\* the loop of line 15 ends
RenumberEnd ==
    /\ pc = "renumber"
    /\ i > Len(cards)
    /\ pc' = "write"
    /\ UNCHANGED <<fs, baseExists, files, fpos, cards, i, wpos, buf, stdout,
                   failedAt, run, dest0, lastOut>>

\* line 18: open(out, "w") creates or truncates the file; the file object
\* starts with an empty buffer
WriteOpen ==
    /\ pc = "write"
    /\ fs' = [fs EXCEPT ![out] = PartialFile(<<>>)]
    /\ wpos' = 1
    /\ buf' = <<>>
    /\ pc' = "writing"
    /\ UNCHANGED <<baseExists, files, fpos, cards, i, stdout, failedAt, run,
                   dest0, lastOut>>

\* line 18: open(out, "w") raises OSError (no permission, no directory)
WriteOpenFail ==
    /\ pc = "write"
    /\ pc' = "failed"
    /\ failedAt' = "write"
    /\ UNCHANGED <<fs, baseExists, files, fpos, cards, i, wpos, buf, stdout,
                   run, dest0, lastOut>>

\* line 19: json.dump hands the text of the next element to fh.write, which
\* keeps it in the buffer of the file object: the file itself stays as
\* open left it (the buffer, 8 KiB, is not filled by the datasets of this
\* model)
WriteChunk ==
    /\ pc = "writing"
    /\ wpos <= Len(cards)
    /\ Encodable(cards[wpos].fields)
    /\ buf' = Append(buf, cards[wpos])
    /\ wpos' = wpos + 1
    /\ UNCHANGED <<fs, baseExists, pc, files, fpos, cards, i, stdout,
                   failedAt, run, dest0, lastOut>>

\* line 19: fh.write raises UnicodeEncodeError on the next element; the with
\* block of line 18 closes the file on the way out, which flushes the
\* buffer: the file holds the text written before the failure
WriteFail ==
    /\ pc = "writing"
    /\ wpos <= Len(cards)
    /\ ~Encodable(cards[wpos].fields)
    /\ fs' = [fs EXCEPT ![out] = PartialFile(buf)]
    /\ buf' = <<>>
    /\ pc' = "failed"
    /\ failedAt' = "write"
    /\ UNCHANGED <<baseExists, files, fpos, cards, i, wpos, stdout, run,
                   dest0, lastOut>>

\* lines 18-19: the process is killed while the file is open; the buffer is
\* lost and the file stays as open left it
WriteKill ==
    /\ pc = "writing"
    /\ buf' = <<>>
    /\ pc' = "failed"
    /\ failedAt' = "write"
    /\ UNCHANGED <<fs, baseExists, files, fpos, cards, i, wpos, stdout, run,
                   dest0, lastOut>>

\* line 19 ends and the with block of line 18 closes the file, which
\* flushes the buffer: the whole document reaches the file
WriteClose ==
    /\ pc = "writing"
    /\ wpos > Len(cards)
    /\ fs' = [fs EXCEPT ![out] = ArrayFile(buf)]
    /\ buf' = <<>>
    /\ pc' = "print"
    /\ UNCHANGED <<baseExists, files, fpos, cards, i, wpos, stdout, failedAt,
                   run, dest0, lastOut>>

\* Variant of Report: the number of section files is reported.
ReportFiles ==
    /\ pc = "print"
    /\ stdout' = Append(stdout, Len(files))
    /\ pc' = "done"
    /\ UNCHANGED <<fs, baseExists, files, fpos, cards, i, wpos, buf, failedAt,
                   run, dest0, lastOut>>

\* line 21
Report ==
    /\ pc = "print"
    /\ stdout' = Append(stdout, Len(cards))
    /\ pc' = "done"
    /\ UNCHANGED <<fs, baseExists, files, fpos, cards, i, wpos, buf, failedAt,
                   run, dest0, lastOut>>

\* The operator runs the script a second time: a fresh process on the file
\* system the first run left.
Rerun ==
    /\ pc \in {"done", "failed"}
    /\ run = 1
    /\ run' = 2
    /\ pc' = "start"
    /\ files' = <<>>
    /\ fpos' = 1
    /\ cards' = <<>>
    /\ i' = 1
    /\ wpos' = 1
    /\ buf' = <<>>
    /\ stdout' = <<>>
    /\ failedAt' = ""
    /\ dest0' = fs[out]
    /\ lastOut' = IF pc = "done" THEN <<fs[out]>> ELSE lastOut
    /\ UNCHANGED <<fs, baseExists>>

Next ==
    \/ Discover
    \/ LoadFile
    \/ LoadFail
    \/ LoadEnd
    \/ RenumberCard
    \/ RenumberFail
    \/ RenumberEnd
    \/ WriteOpen
    \/ WriteOpenFail
    \/ WriteChunk
    \/ WriteFail
    \/ WriteKill
    \/ WriteClose
    \/ Report
    \/ Rerun

Spec == Init /\ [][Next]_vars

\* ------------------------------------------------------------------------
\* Vocabulary of the properties
\* ------------------------------------------------------------------------
Path1 == [dir |-> SectionsDir, name |-> Sec1]
Path2 == [dir |-> SectionsDir, name |-> Sec2]
Path10 == [dir |-> SectionsDir, name |-> Sec10]

\* The partition files: the files of cards/sections named sec_*.json.
Partitions == {p \in SectionPaths : fs[p].kind # "absent"}

RECURSIVE SumRecords(_)
SumRecords(S) ==
    IF S = {} THEN 0
    ELSE LET p == CHOOSE q \in S : TRUE
         IN NumRecords(fs[p]) + SumRecords(S \ {p})

\* Number of records held by the partitions whose file name sorts before p's.
Offset(p) == SumRecords({q \in Partitions : LexLess(q.name, p.name)})

\* The fields of a record other than id.
Payload(r) == [f \in DOMAIN r \ {"id"} |-> r[f]]

\* The run got through the write step.
Written == pc \in {"print", "done"}

\* ------------------------------------------------------------------------
\* Properties
\* ------------------------------------------------------------------------

\* C1 (renumbering): once the write step has completed, the output is an
\* array of N records, N the number of records held by the partitions, and
\* the record at each position k of 1..N carries id = k, whatever id (or
\* none) its source record carried.
C1_Renumbering ==
    Written =>
        /\ fs[out].kind = "array"
        /\ Len(fs[out].items) = SumRecords(Partitions)
        /\ \A k \in 1..Len(fs[out].items) :
              /\ fs[out].items[k].dict
              /\ "id" \in DOMAIN fs[out].items[k].fields
              /\ fs[out].items[k].fields["id"] = k

\* The spec's concrete scenario: A = [hablar id 99], B = [comer, vivir id 5].
C1_Witness ==
    /\ pc = "done"
    /\ fs[Path1] = ArrayFile(Dicts(<<Hablar>>))
    /\ fs[Path2] = ArrayFile(Dicts(<<Comer, Vivir>>))
    /\ fs[out] = ArrayFile(Dicts(<< [term |-> "hablar", id |-> 1],
                                    [term |-> "comer", id |-> 2],
                                    [term |-> "vivir", id |-> 3] >>))

\* C2 (ordering): once the write step has completed, the output has as many
\* records as the partitions hold together, and the j-th record of a
\* partition stands right after all records of the partitions whose file
\* name is lexically smaller: nothing dropped, duplicated or reordered.
C2_Ordering ==
    Written =>
        /\ Len(fs[out].items) = SumRecords(Partitions)
        /\ \A p \in Partitions : \A j \in 1..NumRecords(fs[p]) :
              Payload(fs[out].items[Offset(p) + j].fields)
                 = Payload(fs[p].items[j].fields)

\* sec_10.json sorts before sec_2.json, and equal records are both kept.
C2_Witness ==
    /\ pc = "done"
    /\ fs[Path10] = ArrayFile(Dicts(<<Comer>>))
    /\ fs[Path2] = ArrayFile(Dicts(<<Hablar, Hablar>>))
    /\ fs[out] = ArrayFile(Dicts(<< [term |-> "comer", id |-> 1],
                                    [term |-> "hablar", id |-> 2],
                                    [term |-> "hablar", id |-> 3] >>))

\* C3 (malformed partition), as claimed: when a discovered partition holds
\* a single object instead of an array, the run never completes and
\* never modifies the output file.
C3_ObjectRejected ==
    (\E p \in Partitions : fs[p].kind = "object") =>
        /\ pc # "done"
        /\ fs[out] = dest0

\* C4 (atomic replace), as claimed: at every moment the destination holds
\* either the complete content it had before the run or the complete new
\* dataset.
C4_AtomicReplace ==
    \/ fs[out] = dest0
    \/ fs[out] = ArrayFile(cards)

\* C5 (discovery failure), as claimed: when the source directory does not
\* exist the run never completes and never touches the output file.
C5_DiscoveryFails ==
    ~baseExists =>
        /\ pc # "done"
        /\ fs[out] = dest0

\* C6 (payload preservation): once the write step has completed, the output
\* record of every source record has the source's fields plus id and no
\* others, and every field other than id has the source's value.
C6_PayloadPreserved ==
    Written =>
        \A p \in Partitions : \A j \in 1..NumRecords(fs[p]) :
            LET src == fs[p].items[j].fields
                dst == fs[out].items[Offset(p) + j].fields
            IN /\ DOMAIN dst = DOMAIN src \cup {"id"}
               /\ \A f \in DOMAIN src \ {"id"} : dst[f] = src[f]

C6_Witness ==
    /\ pc = "done"
    /\ fs[Path2] = ArrayFile(Dicts(<<Vivir, Comer>>))
    /\ fs[out] = ArrayFile(Dicts(<< [term |-> "vivir", id |-> 1],
                                    [term |-> "comer", id |-> 2] >>))

\* C7 (empty input): when the source directory exists and holds no
\* partition, or only partitions that are empty arrays, the run does not
\* fail in discovery, loading or renumbering, and once the write step has
\* completed the destination holds the empty array.
C7_EmptyInput ==
    (baseExists /\ \A p \in Partitions : fs[p] = ArrayFile(<<>>)) =>
        /\ failedAt \notin {"load", "renumber"}
        /\ Written => fs[out] = ArrayFile(<<>>)

C7_Witness ==
    /\ pc = "done"
    /\ run = 1
    /\ baseExists
    /\ Partitions = {Path1, Path10}
    /\ \A p \in Partitions : fs[p] = ArrayFile(<<>>)
    /\ dest0 = ArrayFile(Dicts(<<OldRecord>>))
    /\ fs[out] = ArrayFile(<<>>)

\* C8 (idempotence): a second run over unchanged partitions that completes
\* its write step leaves exactly the output the first successful run left.
C8_Idempotent ==
    (Written /\ lastOut # <<>>) => fs[out] = lastOut[1]

C8_Witness ==
    /\ pc = "done"
    /\ run = 2
    /\ lastOut # <<>>
    /\ dest0 = lastOut[1]
    /\ Len(fs[out].items) = 3

\* C9 (abort before write): before open(out, "w"), and in a run that died
\* while loading or renumbering, the destination holds the content it had
\* when the run started.
C9_AbortBeforeWrite ==
    (\/ pc \in {"start", "load", "renumber", "write"}
     \/ pc = "failed" /\ failedAt \in {"load", "renumber"}) =>
        fs[out] = dest0

\* The last of two partitions fails to load after the first gave records.
C9_Witness ==
    /\ pc = "failed"
    /\ failedAt = "load"
    /\ fpos = 2
    /\ Len(cards) = 2
    /\ dest0 = ArrayFile(Dicts(<<OldRecord>>))
    /\ fs[out] = dest0

\* C10 (summary report): at most one summary is printed per run; one is
\* printed only in a run that completed, after the file was written and
\* closed, and it reports the number of records in the file; a failed run
\* has printed none.
C10_Summary ==
    /\ Len(stdout) <= 1
    /\ stdout # <<>> =>
          /\ pc = "done"
          /\ fs[out].kind = "array"
          /\ stdout[1] = Len(fs[out].items)
    /\ pc = "failed" => stdout = <<>>

C10_Witness ==
    /\ pc = "done"
    /\ Len(files) = 2
    /\ stdout = <<3>>

====
